---- MODULE Spec2Model ----
(***************************************************************************)
(* brpc::SimpleDataPool (src/brpc/simple_data_pool.h): an unbounded pool   *)
(* of void* data guarded by one pthread mutex.  The model keeps the fields *)
(* of the class, the mutex, and for every calling thread the operation it  *)
(* is in and that operation's local variables.  A step is what a thread    *)
(* does between two points where other threads can observe or interfere:   *)
(* an unlocked read, a lock acquisition, a critical section body, a call   *)
(* into the DataFactory.                                                   *)
(***************************************************************************)
EXTENDS Integers, Sequences, FiniteSets

\* ------------------------------------------------------------- bounds
\* Calling threads.
NumThreads == 2
\* Data the factories can create in one run (CreateData fails afterwards).
MaxHandles == 2
\* Largest argument given to Reserve.
MaxReserve == 2
\* Reset calls in one run.
MaxResets == 1
\* Reads of an unwritten or out-of-buffer cell that give a value in one run
\* (a further one ends the process).
MaxWildReads == 1

\* ---------------------------------------------------------- constants
\* The null pointer.
NULL == 0
\* Content of a buffer cell that malloc returned and nobody has written.
Uninit == -1
\* A pointer value that is no data of any factory (an indeterminate read).
WILD == -2
\* _mutex when no thread owns it.
Unlocked == 0
\* Capacity Return gives an empty pool.
SeedCapacity == 128

Threads == 1..NumThreads
Handles == 1..MaxHandles
\* The DataFactory objects a caller may pass; NullFactory is the NULL pointer.
NullFactory == "null"
Factories == {"A", "B"}
FactoryArgs == Factories \cup {NullFactory}
\* Every value a void* of the program can hold.
Pointers == Handles \cup {NULL, WILD}

\* A malloc'ed buffer: len cells were allocated, mem holds the cells up to
\* the last one written (a cell never written is Uninit, as are the cells
\* beyond Len(mem)).  The NULL buffer has no cell.
NullPool == [len |-> 0, mem |-> <<>>]

VARIABLES
    _mutex,     \* pthread_mutex_t _mutex: Unlocked or the owning thread
    _capacity,  \* unsigned _capacity
    _size,      \* unsigned _size
    _ncreated,  \* base::atomic<unsigned> _ncreated
    _pool,      \* void** _pool
    _factory,   \* const DataFactory* _factory
    pc,         \* per thread: where it is in its current call
    loc,        \* per thread: the local variables of its current call
    fatal,      \* "no", or why the process died
    resets,     \* Reset calls made so far
    wild,       \* reads of indeterminate cells that gave a value so far
    made,       \* history: made[h] is the factory whose CreateData returned h
    held,       \* history: held[t][p] is how many times t holds p from Borrow
    destroyed,  \* history: destroyed[p] is the DestroyData calls made on p
    banked,     \* history: data put in the bank and not yet taken out
    calls,      \* history: CreateData calls since the last Reset's store(0),
                \* and whether _factory has ever been NULL (nullfac)
    solo,       \* TRUE when callers take turns: no call overlaps another
    obs         \* history of the current and the previous call, kept when solo

vars == <<_mutex, _capacity, _size, _ncreated, _pool, _factory, pc, loc,
          fatal, resets, wild, made, held, destroyed, banked, calls, solo, obs>>

prog == <<_mutex, _capacity, _size, _ncreated, _pool, _factory, pc, loc,
          fatal, resets, wild, made, held, destroyed, banked, calls>>

\* ------------------------------------------------------------ helpers
Max(a, b) == IF a >= b THEN a ELSE b
Min(a, b) == IF a <= b THEN a ELSE b

\* _capacity * 3 / 2 in unsigned arithmetic.  The product wraps at 2^32,
\* which a capacity below 2^32 / 3 cells (11 GB of pointers) never reaches;
\* the capacities of this model stay below a few hundred.
ThreeHalves(c) == (c * 3) \div 2

\* Reserve: const unsigned new_cap = std::max(_capacity * 3 / 2, n).
ReserveNewCap(c, n) == Max(ThreeHalves(c), n)

\* A plausible slip: the division is done before the multiplication.
ReturnNewCapHalvedFirst(c) == IF c = 0 THEN SeedCapacity ELSE (c \div 2) * 3

\* Return: new_cap = (_capacity == 0 ? 128 : (_capacity * 3 / 2)).
ReturnNewCap(c) == IF c = 0 THEN SeedCapacity ELSE ThreeHalves(c)

\* A plausible slip: the creation is not counted.
FetchAddLost(c) == c

\* _ncreated.fetch_add(1, base::memory_order_relaxed).
FetchAdd(c) == c + 1

\* Cell i (from 0) of buffer b was allocated and has been written.
Written(b, i) == i < b.len /\ i < Len(b.mem) /\ b.mem[i + 1] # Uninit

\* What reading an unwritten cell, or a cell outside the buffer, can give:
\* any pointer, the data created so far among them; or the read faults
\* (BadRead).
BadRead == -3
Indeterminate ==
    {BadRead} \cup (IF wild < MaxWildReads THEN {NULL, WILD} \cup (1..Len(made)) ELSE {})

\* The values reading cell i of buffer b can give.
Load(b, i) == IF Written(b, i) THEN {b.mem[i + 1]} ELSE Indeterminate

\* Buffer b after b[i] = v; a write outside the buffer does not land in it.
Store(b, i, v) ==
    IF i >= b.len THEN b
    ELSE [b EXCEPT !.mem =
            [k \in 1..Max(Len(b.mem), i + 1) |->
                IF k = i + 1 THEN v
                ELSE IF k <= Len(b.mem) THEN b.mem[k] ELSE Uninit]]

\* malloc(new_cap * sizeof(void*)) followed by memcpy of cap cells of old.
Grown(old, cap, new_cap) ==
    [len |-> new_cap, mem |-> SubSeq(old.mem, 1, Min(Len(old.mem), Min(cap, new_cap)))]

\* The local variables of a thread that is in no call.
NoLocals ==
    [n |-> 0, data |-> NULL, i |-> 0, new_factory |-> NullFactory,
     saved_size |-> 0, saved_pool |-> NullPool, saved_factory |-> NullFactory]

\* stat(): Stat s = { _size, _ncreated.load() }.
stat == [nfree |-> _size, ncreated |-> _ncreated]

\* ------------------------------------------------------- history helpers
NoneHeld == [p \in Pointers |-> 0]
Take(h, p) == [h EXCEPT ![p] = @ + 1]
Give(h, p) == [h EXCEPT ![p] = @ - 1]

\* One more DestroyData(p) call on factory f.  The count stops at 2, which
\* stands for "more than once".
Destroy(d, p, f) ==
    [d EXCEPT ![p] = [n |-> Min(@.n + 1, 2), by |-> @.by \cup {f}]]

\* banked is a bag of pointers, kept as a function to counts.
BankAdd(b, p) == [b EXCEPT ![p] = @ + 1]
BankDel(b, p) == [b EXCEPT ![p] = Max(@ - 1, 0)]
BankCount(b) == LET RECURSIVE Sum(_)
                    Sum(S) == IF S = {} THEN 0
                              ELSE LET x == CHOOSE y \in S : TRUE
                                   IN b[x] + Sum(S \ {x})
                IN Sum(Pointers)

\* What CreateData can return: NULL on failure, else the next new data.
CreateResults == {NULL} \cup (IF Len(made) < MaxHandles THEN {Len(made) + 1} ELSE {})

\* ------------------------------------------------- history of one call
\* The pool as a caller finds it when its call begins.
Snapshot ==
    [size |-> _size, capacity |-> _capacity, pool |-> _pool,
     ncreated |-> _ncreated, factory |-> _factory, banked |-> banked,
     destroyed |-> destroyed, nmade |-> Len(made), invoked |-> calls.invoked]

\* obs.run: the call is Reserve(n) on a pool in the state the constructor
\* or Reset leaves (empty, no buffer, nothing created), or the k-th of the
\* k <= n Borrow calls that follow such a Reserve which met no failure.
NoRun == [n |-> -1, k |-> 0]
Fresh == _capacity = 0 /\ _size = 0 /\ _ncreated = 0 /\ _pool = NullPool

Run(op, upd) ==
    IF op = "Reserve" /\ Fresh THEN [n |-> upd.n, k |-> 0]
    ELSE IF /\ op = "Borrow" /\ obs.run.k < obs.run.n
            /\ ~obs.alloc_failed /\ ~obs.create_failed
         THEN [obs.run EXCEPT !.k = @ + 1]
         ELSE NoRun

NoObs ==
    [op |-> "none", phase |-> "returned", n |-> 0, data |-> NULL,
     factory |-> NullFactory, ret |-> NULL, alloc_failed |-> FALSE,
     create_failed |-> FALSE, popped |-> FALSE, malloc_failed |-> FALSE,
     pre |-> Snapshot,
     prev |-> [op |-> "none", data |-> NULL, alloc_failed |-> FALSE],
     last_reset |-> "none", run |-> NoRun]

\* Record r with the fields of upd set or added.
Merge(r, upd) ==
    [k \in DOMAIN r \cup DOMAIN upd |-> IF k \in DOMAIN upd THEN upd[k] ELSE r[k]]

\* A call begins.
ObsCall(op, upd) ==
    Merge(Merge(NoObs, [op |-> op, phase |-> "running", pre |-> Snapshot,
                        prev |-> [op |-> obs.op, data |-> obs.data,
                                  alloc_failed |-> obs.alloc_failed],
                        malloc_failed |-> obs.malloc_failed,
                        last_reset |-> obs.last_reset,
                        run |-> Run(op, upd)]), upd)

Began(op, upd) == obs' = IF solo THEN ObsCall(op, upd) ELSE obs
Noted(upd) == obs' = IF solo THEN Merge(obs, upd) ELSE obs
Returned(upd) == Noted(Merge(upd, [phase |-> "returned"]))

\* ---------------------------------------------------------------- Init
\* SimpleDataPool(factory): lines 46-53.  The factory is NULL or not; which
\* of the interchangeable factories it is makes no difference.
Init ==
    /\ _mutex = Unlocked
    /\ _capacity = 0
    /\ _size = 0
    /\ _ncreated = 0
    /\ _pool = NullPool
    /\ _factory \in {"A", NullFactory}
    /\ pc = [t \in Threads |-> "idle"]
    /\ loc = [t \in Threads |-> NoLocals]
    /\ fatal = "no"
    /\ resets = 0
    /\ wild = 0
    /\ made = <<>>
    /\ held = [t \in Threads |-> NoneHeld]
    /\ destroyed = [p \in Pointers |-> [n |-> 0, by |-> {}]]
    /\ banked = NoneHeld
    /\ calls = [invoked |-> 0, produced |-> 0, raced |-> FALSE,
                nullfac |-> _factory = NullFactory]
    /\ obs = NoObs

\* A thread may take a step: the process is alive, and when there is a
\* single caller it is thread 1.
Turn(t) ==
    /\ fatal = "no"
    /\ solo => t = 1

\* The process ends: a member function was called through a NULL
\* DataFactory* ("null factory"), or a read outside the written cells of a
\* buffer faulted ("bad read").
Crash(why) ==
    /\ fatal' = why
    /\ UNCHANGED <<_mutex, _capacity, _size, _ncreated, _pool, _factory, pc,
                   loc, resets, wild, made, held, destroyed, banked, calls,
                   solo, obs>>

\* One more CreateData call that returned d: calls.invoked counts the calls,
\* calls.produced those that returned data.  invoked stops one above the
\* data a run can have, where it differs from every count of data.
Counted(d) ==
    [calls EXCEPT !.invoked = Min(@ + 1, MaxHandles + 1),
                  !.produced = @ + (IF d = NULL THEN 0 ELSE 1)]

\* -------------------------------------------------------------- Borrow
\* Line 118: if (_size), read without the lock.
BorrowCheck(t) ==
    /\ Turn(t)
    /\ pc[t] = "idle"
    /\ pc' = [pc EXCEPT ![t] = IF _size # 0 THEN "borrow_lock" ELSE "borrow_create"]
    /\ Began("Borrow", <<>>)
    /\ UNCHANGED <<_mutex, _capacity, _size, _ncreated, _pool, _factory, loc,
                   fatal, resets, wild, made, held, destroyed, banked, calls, solo>>

\* A plausible slip: Borrow pops without taking the lock.
BorrowLockSkipped(t) ==
    /\ Turn(t)
    /\ pc[t] = "borrow_lock"
    /\ pc' = [pc EXCEPT ![t] = "borrow_cs"]
    /\ UNCHANGED <<_mutex, _capacity, _size, _ncreated, _pool, _factory, loc, fatal,
                   resets, wild, made, held, destroyed, banked, calls, solo, obs>>

\* Line 119: BAIDU_SCOPED_LOCK(_mutex).
BorrowLock(t) ==
    /\ Turn(t)
    /\ pc[t] = "borrow_lock"
    /\ _mutex = Unlocked
    /\ _mutex' = t
    /\ pc' = [pc EXCEPT ![t] = "borrow_cs"]
    /\ UNCHANGED <<_capacity, _size, _ncreated, _pool, _factory, loc, fatal, resets, wild,
                   made, held, destroyed, banked, calls, solo, obs>>

\* Lines 120-123: if (_size) return _pool[--_size]; the lock is released on
\* either way out of the block.
BorrowPop(t) ==
    /\ Turn(t)
    /\ pc[t] = "borrow_cs"
    /\ IF _size # 0
       THEN \E v \in Load(_pool, _size - 1) :
              IF v = BadRead
              THEN Crash("bad read")
              ELSE /\ _size' = _size - 1
                   /\ _mutex' = Unlocked
                   /\ wild' = IF Written(_pool, _size - 1) THEN wild ELSE wild + 1
                   /\ held' = IF v = NULL THEN held ELSE [held EXCEPT ![t] = Take(@, v)]
                   /\ banked' = IF v = NULL THEN banked ELSE BankDel(banked, v)
                   /\ pc' = [pc EXCEPT ![t] = "idle"]
                   /\ Returned([ret |-> v, popped |-> TRUE])
                   /\ UNCHANGED <<_capacity, _ncreated, _pool, _factory, loc,
                                  fatal, resets, made, destroyed, calls, solo>>
       ELSE /\ _mutex' = Unlocked
            /\ pc' = [pc EXCEPT ![t] = "borrow_create"]
            /\ UNCHANGED <<_capacity, _size, _ncreated, _pool, _factory, loc,
                           fatal, resets, wild, made, held, destroyed, banked,
                           calls, solo, obs>>

\* Line 124: void* data = _factory->CreateData(), with no lock held.
BorrowCreate(t) ==
    /\ Turn(t)
    /\ pc[t] = "borrow_create"
    /\ IF _factory = NullFactory
       THEN Crash("null factory")
       ELSE \E d \in CreateResults :
                /\ calls' = Counted(d)
                /\ IF d = NULL
                   THEN /\ pc' = [pc EXCEPT ![t] = "idle"]
                        /\ Returned([ret |-> NULL, create_failed |-> TRUE])
                        /\ UNCHANGED <<made, loc>>
                   ELSE /\ made' = Append(made, _factory)
                        /\ loc' = [loc EXCEPT ![t].data = d]
                        /\ pc' = [pc EXCEPT ![t] = "borrow_count"]
                        /\ UNCHANGED obs
                /\ UNCHANGED <<_mutex, _capacity, _size, _ncreated, _pool,
                               _factory, fatal, resets, wild, held, destroyed, banked, solo>>

\* Lines 125-128: if (data) _ncreated.fetch_add(1); return data.
BorrowCount(t) ==
    /\ Turn(t)
    /\ pc[t] = "borrow_count"
    /\ _ncreated' = FetchAdd(_ncreated)
    /\ held' = [held EXCEPT ![t] = Take(@, loc[t].data)]
    /\ pc' = [pc EXCEPT ![t] = "idle"]
    /\ loc' = [loc EXCEPT ![t] = NoLocals]
    /\ Returned([ret |-> loc[t].data])
    /\ UNCHANGED <<_mutex, _capacity, _size, _pool, _factory, fatal, resets, wild, made,
                   destroyed, banked, calls, solo>>

\* -------------------------------------------------------------- Return
\* Lines 132-134: if (data == NULL) return.
ReturnNull(t) ==
    /\ Turn(t)
    /\ pc[t] = "idle"
    /\ obs' = IF solo THEN Merge(ObsCall("Return", [data |-> NULL]), [phase |-> "returned"])
              ELSE obs
    /\ UNCHANGED prog
    /\ UNCHANGED solo

\* Line 135: pthread_mutex_lock(&_mutex), called with data the caller holds.
ReturnLock(t, d) ==
    /\ Turn(t)
    /\ pc[t] = "idle"
    /\ held[t][d] > 0
    /\ _mutex = Unlocked
    /\ _mutex' = t
    /\ held' = [held EXCEPT ![t] = Give(@, d)]
    /\ loc' = [loc EXCEPT ![t].data = d]
    /\ pc' = [pc EXCEPT ![t] = "return_cs"]
    /\ Began("Return", [data |-> d])
    /\ UNCHANGED <<_capacity, _size, _ncreated, _pool, _factory, fatal, resets, wild, made,
                   destroyed, banked, calls, solo>>

\* Lines 136-151: grow when _capacity == _size, then _pool[_size++] = data;
\* when malloc fails, unlock and go on to destroy the data.
ReturnBank(t) ==
    /\ Turn(t)
    /\ pc[t] = "return_cs"
    /\ _mutex' = Unlocked
    /\ \E ok \in BOOLEAN :
         IF _capacity = _size /\ ~ok
         THEN /\ pc' = [pc EXCEPT ![t] = "return_destroy"]
              /\ Noted([alloc_failed |-> TRUE, malloc_failed |-> TRUE])
              /\ UNCHANGED <<_capacity, _size, _pool, banked, loc>>
         ELSE LET new_cap == IF _capacity = _size THEN ReturnNewCap(_capacity)
                             ELSE _capacity
                  new_pool == IF _capacity = _size
                              THEN Grown(_pool, _capacity, new_cap)
                              ELSE _pool
              IN /\ _capacity' = new_cap
                 /\ _pool' = Store(new_pool, _size, loc[t].data)
                 /\ _size' = _size + 1
                 /\ banked' = BankAdd(banked, loc[t].data)
                 /\ pc' = [pc EXCEPT ![t] = "idle"]
                 /\ loc' = [loc EXCEPT ![t] = NoLocals]
                 /\ Returned(<<>>)
    /\ UNCHANGED <<_ncreated, _factory, fatal, resets, wild, made, held, destroyed, calls, solo>>

\* Line 141: return _factory->DestroyData(data), after the unlock.
ReturnDestroy(t) ==
    /\ Turn(t)
    /\ pc[t] = "return_destroy"
    /\ IF _factory = NullFactory
       THEN Crash("null factory")
       ELSE /\ destroyed' = Destroy(destroyed, loc[t].data, _factory)
            /\ pc' = [pc EXCEPT ![t] = "idle"]
            /\ loc' = [loc EXCEPT ![t] = NoLocals]
            /\ Returned(<<>>)
            /\ UNCHANGED <<_mutex, _capacity, _size, _ncreated, _pool, _factory,
                           fatal, resets, wild, made, held, banked, calls, solo>>

\* ------------------------------------------------------------- Reserve
\* Lines 86-88: if (_capacity >= n) return, read without the lock.
ReserveCheck(t, n) ==
    /\ Turn(t)
    /\ pc[t] = "idle"
    /\ IF _capacity >= n
       THEN /\ obs' = IF solo THEN Merge(ObsCall("Reserve", [n |-> n]), [phase |-> "returned"])
                      ELSE obs
            /\ UNCHANGED <<pc, loc>>
       ELSE /\ pc' = [pc EXCEPT ![t] = "reserve_lock"]
            /\ loc' = [loc EXCEPT ![t].n = n]
            /\ Began("Reserve", [n |-> n])
    /\ UNCHANGED <<_mutex, _capacity, _size, _ncreated, _pool, _factory, fatal, resets, wild,
                   made, held, destroyed, banked, calls, solo>>

\* Line 89: BAIDU_SCOPED_LOCK(_mutex).
ReserveLock(t) ==
    /\ Turn(t)
    /\ pc[t] = "reserve_lock"
    /\ _mutex = Unlocked
    /\ _mutex' = t
    /\ pc' = [pc EXCEPT ![t] = "reserve_cs"]
    /\ UNCHANGED <<_capacity, _size, _ncreated, _pool, _factory, loc, fatal, resets, wild,
                   made, held, destroyed, banked, calls, solo, obs>>

\* A plausible slip: _capacity is assigned before malloc's result is tested.
KeptCapacitySwapped(cap, new_cap) == new_cap

\* Lines 96-98: malloc returned NULL and Reserve returns before the swap of
\* lines 104-105; _capacity keeps its value.
KeptCapacity(cap, new_cap) == cap

\* Lines 90-105: the second check, then malloc, memcpy, free and the swap.
ReserveGrow(t) ==
    /\ Turn(t)
    /\ pc[t] = "reserve_cs"
    /\ \E ok \in BOOLEAN :
         IF _capacity >= loc[t].n \/ ~ok
         THEN /\ _mutex' = Unlocked
              /\ pc' = [pc EXCEPT ![t] = "idle"]
              /\ loc' = [loc EXCEPT ![t] = NoLocals]
              /\ Returned([alloc_failed |-> _capacity < loc[t].n,
                           malloc_failed |-> obs.malloc_failed \/ _capacity < loc[t].n])
              /\ _capacity' = IF _capacity >= loc[t].n THEN _capacity
                              ELSE KeptCapacity(_capacity,
                                                ReserveNewCap(_capacity, loc[t].n))
              /\ UNCHANGED _pool
         ELSE LET new_cap == ReserveNewCap(_capacity, loc[t].n)
              IN /\ _pool' = Grown(_pool, _capacity, new_cap)
                 /\ loc' = [loc EXCEPT ![t].i = _capacity]
                 /\ _capacity' = new_cap
                 /\ pc' = [pc EXCEPT ![t] = "reserve_fill"]
                 /\ UNCHANGED <<_mutex, obs>>
    /\ UNCHANGED <<_size, _ncreated, _factory, fatal, resets, wild, made, held, destroyed,
                   banked, calls, solo>>

\* A plausible slip: the loop runs once more.
FillMoreInclusive(i, n) == i <= n

\* Line 107: the condition of for (; i < n; ++i).
FillMore(i, n) == i < n

\* Lines 107-115: one turn of for (; i < n; ++i), under the lock; the lock
\* is released when the loop ends or breaks.
ReserveFill(t) ==
    /\ Turn(t)
    /\ pc[t] = "reserve_fill"
    /\ IF FillMore(loc[t].i, loc[t].n)
       THEN IF _factory = NullFactory
            THEN Crash("null factory")
            ELSE \E d \in CreateResults :
                   /\ calls' = Counted(d)
                   /\ IF d = NULL
                      THEN /\ _mutex' = Unlocked
                           /\ pc' = [pc EXCEPT ![t] = "idle"]
                           /\ loc' = [loc EXCEPT ![t] = NoLocals]
                           /\ Returned([create_failed |-> TRUE])
                           /\ UNCHANGED <<_size, _ncreated, _pool, made, banked>>
                      ELSE /\ made' = Append(made, _factory)
                           /\ _ncreated' = FetchAdd(_ncreated)
                           /\ _pool' = Store(_pool, _size, d)
                           /\ _size' = _size + 1
                           /\ banked' = BankAdd(banked, d)
                           /\ loc' = [loc EXCEPT ![t].i = @ + 1]
                           /\ UNCHANGED <<_mutex, pc, obs>>
                   /\ UNCHANGED <<_capacity, _factory, fatal, resets, wild, held, destroyed, solo>>
       ELSE /\ _mutex' = Unlocked
            /\ pc' = [pc EXCEPT ![t] = "idle"]
            /\ loc' = [loc EXCEPT ![t] = NoLocals]
            /\ Returned(<<>>)
            /\ UNCHANGED <<_capacity, _size, _ncreated, _pool, _factory, fatal, resets, wild,
                           made, held, destroyed, banked, calls, solo>>

\* --------------------------------------------------------------- Reset
\* A plausible slip: the lock's scope reaches to the end of Reset.
ScopeEndLate(t) == t

\* Line 74: the scope of BAIDU_SCOPED_LOCK ends, thread t releases _mutex
\* before the tests and the loop of lines 75-82.
ScopeEnd(t) == Unlocked

\* Line 65: BAIDU_SCOPED_LOCK(_mutex).
ResetLock(t, f) ==
    /\ Turn(t)
    /\ pc[t] = "idle"
    /\ resets < MaxResets
    /\ resets' = resets + 1
    /\ _mutex = Unlocked
    /\ _mutex' = t
    /\ loc' = [loc EXCEPT ![t].new_factory = f]
    /\ pc' = [pc EXCEPT ![t] = "reset_cs"]
    /\ Began("Reset", [factory |-> f])
    /\ UNCHANGED <<_capacity, _size, _ncreated, _pool, _factory, fatal, wild,
                   made, held, destroyed, banked, calls, solo>>

\* Lines 66-75: save size, buffer and factory, empty the pool, unlock; then
\* the tests of saved_pool and saved_factory.  free(saved_pool) changes
\* nothing the model keeps.
ResetSwap(t) ==
    /\ Turn(t)
    /\ pc[t] = "reset_cs"
    /\ _capacity' = 0
    /\ _size' = 0
    /\ _ncreated' = 0
    /\ _pool' = NullPool
    /\ _factory' = loc[t].new_factory
    /\ _mutex' = ScopeEnd(t)
    /\ banked' = NoneHeld
    /\ calls' = [invoked |-> 0, produced |-> 0,
                 raced |-> \E u \in Threads \ {t} : pc[u] # "idle",
                 nullfac |-> calls.nullfac \/ loc[t].new_factory = NullFactory]
    /\ IF _pool # NullPool /\ _factory # NullFactory /\ 0 < _size
       THEN /\ loc' = [loc EXCEPT ![t].saved_size = _size,
                                  ![t].saved_pool = _pool,
                                  ![t].saved_factory = _factory,
                                  ![t].i = 0]
            /\ pc' = [pc EXCEPT ![t] = "reset_destroy"]
            /\ Noted([last_reset |-> loc[t].new_factory])
       ELSE /\ loc' = [loc EXCEPT ![t] = NoLocals]
            /\ pc' = [pc EXCEPT ![t] = "idle"]
            /\ Returned([last_reset |-> loc[t].new_factory])
    /\ UNCHANGED <<fatal, resets, wild, made, held, destroyed, solo>>

\* Lines 77-79: one turn of the loop, saved_factory->DestroyData(saved_pool[i]).
ResetDestroy(t) ==
    /\ Turn(t)
    /\ pc[t] = "reset_destroy"
    /\ \E v \in Load(loc[t].saved_pool, loc[t].i) :
         IF v = BadRead
         THEN Crash("bad read")
         ELSE /\ destroyed' = Destroy(destroyed, v, loc[t].saved_factory)
              /\ wild' = IF Written(loc[t].saved_pool, loc[t].i) THEN wild ELSE wild + 1
              /\ IF loc[t].i + 1 < loc[t].saved_size
                 THEN /\ loc' = [loc EXCEPT ![t].i = @ + 1]
                      /\ UNCHANGED <<pc, obs>>
                 ELSE /\ loc' = [loc EXCEPT ![t] = NoLocals]
                      /\ pc' = [pc EXCEPT ![t] = "idle"]
                      /\ Returned(<<>>)
              /\ UNCHANGED <<_mutex, _capacity, _size, _ncreated, _pool, _factory,
                             fatal, resets, made, held, banked, calls, solo>>

\* ---------------------------------------------------------------- Next
Next ==
    \/ \E t \in Threads : BorrowCheck(t)
    \/ \E t \in Threads : BorrowLock(t)
    \/ \E t \in Threads : BorrowPop(t)
    \/ \E t \in Threads : BorrowCreate(t)
    \/ \E t \in Threads : BorrowCount(t)
    \/ \E t \in Threads : ReturnNull(t)
    \/ \E t \in Threads : \E d \in Pointers \ {NULL} : ReturnLock(t, d)
    \/ \E t \in Threads : ReturnBank(t)
    \/ \E t \in Threads : ReturnDestroy(t)
    \/ \E t \in Threads : \E n \in 0..MaxReserve : ReserveCheck(t, n)
    \/ \E t \in Threads : ReserveLock(t)
    \/ \E t \in Threads : ReserveGrow(t)
    \/ \E t \in Threads : ReserveFill(t)
    \/ \E t \in Threads : \E f \in FactoryArgs : ResetLock(t, f)
    \/ \E t \in Threads : ResetSwap(t)
    \/ \E t \in Threads : ResetDestroy(t)

\* Threads call the pool concurrently.
InitShared == Init /\ solo = FALSE
Spec == InitShared /\ [][Next]_vars

\* Callers take turns: every call returns before the next one begins.
InitSolo == Init /\ solo = TRUE
SpecSolo == InitSolo /\ [][Next]_vars

\* The steps thread t takes once it is inside a call.  A step that waits
\* for _mutex is enabled whenever the mutex is free.
Inside(t) ==
    \/ BorrowLock(t) \/ BorrowPop(t) \/ BorrowCreate(t) \/ BorrowCount(t)
    \/ ReturnBank(t) \/ ReturnDestroy(t)
    \/ ReserveLock(t) \/ ReserveGrow(t) \/ ReserveFill(t)
    \/ ResetSwap(t) \/ ResetDestroy(t)

\* Fair scheduling: a thread inside a call keeps running, a thread waiting
\* for the mutex gets it if it is free again and again, and the calls into
\* the DataFactory come back.
SpecFair == InitShared /\ [][Next]_vars /\ \A t \in Threads : SF_vars(Inside(t))

\* =================================================================
\* Properties.
\* =================================================================
AllIdle == \A t \in Threads : pc[t] = "idle"

\* How many times the threads hold pointer p.
HeldCount(p) ==
    LET RECURSIVE Sum(_)
        Sum(S) == IF S = {} THEN 0
                  ELSE LET t == CHOOSE u \in S : TRUE
                       IN held[t][p] + Sum(S \ {t})
    IN Sum(Threads)

\* The cells among slots[0, _size) of the buffer that hold pointer p.
BankCells(p) == {i \in 0..(_size - 1) : Written(_pool, i) /\ _pool.mem[i + 1] = p}

\* The last call was op and has returned (single caller).
Done(op) == solo /\ obs.op = op /\ obs.phase = "returned" /\ fatal = "no"

\* C1: after any sequence of Reserve, Borrow, Return and Reset calls in
\* which no buffer allocation failed, 0 <= _size <= _capacity.
C1_SizeWithinCapacity ==
    ~obs.malloc_failed => (0 <= _size /\ _size <= _capacity)

\* C2: with callers that only Return data they hold, no data is at once
\* held by two callers, or held and in slots[0, _size), or twice in
\* slots[0, _size).
C2_NoDuplication ==
    \A h \in Handles : HeldCount(h) + Cardinality(BankCells(h)) <= 1

\* C3: a single caller's Return(h) that stored h, followed at once by
\* Borrow, gives h back.
C3_RoundTrip ==
    (Done("Borrow") /\ obs.prev.op = "Return" /\ obs.prev.data # NULL
        /\ ~obs.prev.alloc_failed)
    => obs.ret = obs.prev.data

\* C4 as stated: once all calls have returned, and no Reset ran while
\* another call was under way, stat().ncreated is the number of CreateData
\* calls made since construction or the last Reset.
C4_CreatedCountsCalls ==
    (AllIdle /\ ~calls.raced) => stat.ncreated = calls.invoked

\* C4 as amended: ... stat().ncreated is the number of CreateData calls
\* that returned data (a call that returned NULL is not counted).
C4_CreatedCountsData ==
    (AllIdle /\ ~calls.raced) => stat.ncreated = calls.produced

\* Two threads have created data, through Borrow and through Reserve, a
\* CreateData call has failed, and every call has returned.
C4_Witness ==
    /\ AllIdle /\ ~calls.raced /\ resets = 0
    /\ calls.produced = 2 /\ calls.invoked > calls.produced
    /\ _size = 1 /\ HeldCount(1) + HeldCount(2) = 1

\* C5: between the calls of a single caller, stat().nfree is the number of
\* data put in the bank by Reserve or Return and not since handed out by
\* Borrow or drained by Reset.
C5_FreeCountsBanked ==
    (solo /\ pc[1] = "idle" /\ fatal = "no") => stat.nfree = BankCount(banked)

\* C6: when a single caller's Reserve(n) returns, and no malloc and no
\* CreateData call has failed, stat().nfree >= n.
C6_ReserveFills ==
    (Done("Reserve") /\ ~obs.malloc_failed /\ calls.invoked = calls.produced)
    => stat.nfree >= obs.n

\* C7: when a single caller's Reset(newFactory) of a pool with a non-NULL
\* factory returns, each data banked before the call has had DestroyData of
\* the old factory called on it exactly once, nfree and ncreated are 0; and
\* the data a later Borrow creates was created by newFactory.
C7_ResetDrains ==
    /\ (Done("Reset") /\ obs.pre.factory # NullFactory)
       => /\ \A h \in Handles :
                obs.pre.banked[h] > 0
                => /\ destroyed[h].n = obs.pre.destroyed[h].n + 1
                   /\ destroyed[h].by = obs.pre.destroyed[h].by \cup {obs.pre.factory}
          /\ stat.nfree = 0
          /\ stat.ncreated = 0
          /\ _factory = obs.factory
    /\ (Done("Borrow") /\ ~obs.popped /\ obs.ret # NULL /\ obs.last_reset # "none")
       => made[obs.ret] = obs.last_reset

\* C8: every DestroyData call the pool makes is made on the factory whose
\* CreateData returned that data.
C8_DestroyedByCreator ==
    \A h \in 1..Len(made) : destroyed[h].by \subseteq {made[h]}

\* C9: when a single caller's Return(h) finds the bank full and malloc
\* fails, DestroyData(h) has been called exactly once on the factory when
\* Return returns, h is not in slots[0, _size), and _size, _capacity and the
\* buffer are as before the call.
C9_ReturnFallback ==
    (Done("Return") /\ obs.alloc_failed)
    => /\ destroyed[obs.data].n = obs.pre.destroyed[obs.data].n + 1
       /\ _factory \in destroyed[obs.data].by
       /\ BankCells(obs.data) = {}
       /\ _size = obs.pre.size
       /\ _capacity = obs.pre.capacity
       /\ _pool = obs.pre.pool

\* C10: a single caller's Borrow returns NULL exactly when its CreateData
\* call returned NULL; data taken from the bank is not NULL; a failed
\* CreateData is called once and leaves ncreated alone.
C10_BorrowNull ==
    Done("Borrow")
    => /\ obs.ret = NULL <=> obs.create_failed
       /\ obs.popped => obs.ret # NULL
       /\ obs.create_failed
          => /\ stat.ncreated = obs.pre.ncreated
             /\ calls.invoked = Min(obs.pre.invoked + 1, MaxHandles + 1)

\* C11: no sequence of public calls, on a pool constructed or Reset with
\* any factory pointer, NULL included, makes the pool call CreateData or
\* DestroyData through a NULL DataFactory*.
C11_NoNullFactoryCall == fatal # "null factory"

\* C12: when a single caller's Reserve(n) finds _size >= n, it returns
\* having made no CreateData call and with ncreated, _size, _capacity, the
\* buffer and the banked data as before the call.
C12_ReserveNoOp ==
    (solo /\ obs.op = "Reserve" /\ obs.pre.size >= obs.n)
    => /\ calls.invoked = obs.pre.invoked
       /\ Len(made) = obs.pre.nmade
       /\ fatal = "no"
       /\ stat.ncreated = obs.pre.ncreated
       /\ stat.nfree = obs.pre.size
       /\ _capacity = obs.pre.capacity
       /\ _pool = obs.pre.pool
       /\ banked = obs.pre.banked

\* C13: no thread calls DestroyData while it owns _mutex: a thread about to
\* destroy in Reset's loop or in Return's allocation-failure path has
\* released the lock, so other threads can be in their critical sections.
C13_DestroyOutsideLock ==
    \A t \in Threads :
        pc[t] \in {"return_destroy", "reset_destroy"} => _mutex # t

\* A thread is in Reset's destroy loop while another one owns the lock in
\* Return.
C13_Witness ==
    \E t, u \in Threads :
        pc[t] = "reset_destroy" /\ pc[u] = "return_cs" /\ _mutex = u

\* C14: a single caller's Reserve(n) on a freshly constructed or freshly
\* reset pool, with no malloc and no CreateData failure, returns with
\* stat().ncreated = n and stat().nfree = n; after the k-th of k <= n Borrow
\* calls that follow, nfree = n - k, ncreated is still n and the Borrow made
\* no CreateData call.
C14_ReserveThenBorrow ==
    (/\ solo /\ obs.phase = "returned" /\ obs.run # NoRun
     /\ ~obs.alloc_failed /\ ~obs.create_failed)
    => /\ fatal = "no"
       /\ stat.ncreated = obs.run.n
       /\ stat.nfree = obs.run.n - obs.run.k
       /\ obs.op = "Borrow" => calls.invoked = obs.pre.invoked /\ obs.ret # NULL

\* Reserve(2) on a fresh pool has been followed by two Borrow calls.
C14_Witness ==
    /\ Done("Borrow") /\ obs.run = [n |-> 2, k |-> 2]
    /\ stat.nfree = 0 /\ stat.ncreated = 2

\* C15: when malloc fails in a single caller's Reserve(n), Reserve returns
\* with _capacity, _size, the buffer, ncreated and the banked data as before
\* the call, having made no CreateData call, and with the lock released.
C15_ReserveAllocFailure ==
    (Done("Reserve") /\ obs.alloc_failed)
    => /\ _capacity = obs.pre.capacity
       /\ _size = obs.pre.size
       /\ _pool = obs.pre.pool
       /\ stat.ncreated = obs.pre.ncreated
       /\ banked = obs.pre.banked
       /\ calls.invoked = obs.pre.invoked
       /\ Len(made) = obs.pre.nmade
       /\ _mutex = Unlocked

\* malloc failed in a Reserve called on a pool that holds data.
C15_Witness ==
    /\ Done("Reserve") /\ obs.alloc_failed
    /\ obs.pre.size > 0 /\ obs.pre.capacity > 0 /\ obs.n > obs.pre.capacity

\* The step is one of thread t in one of the places ps.
StepFrom(t, ps) == pc[t] \in ps /\ (pc'[t] # pc[t] \/ loc'[t] # loc[t])

\* C16: in every interleaving _capacity never decreases except in Reset's
\* critical section, which sets it to 0; the steps of Borrow, and a Return
\* or Reserve whose malloc fails, leave it unchanged.
C16_CapacityGrows ==
    [][/\ _capacity' < _capacity
          => /\ \E t \in Threads : StepFrom(t, {"reset_cs"})
             /\ _capacity' = 0
       /\ (\E t \in Threads :
              \/ StepFrom(t, {"borrow_lock", "borrow_cs", "borrow_create", "borrow_count"})
              \/ pc[t] = "return_cs" /\ pc'[t] = "return_destroy"
              \/ pc[t] = "reserve_cs" /\ pc'[t] = "idle")
          => _capacity' = _capacity]_vars

\* With no Reset so far, the capacity has grown from 0 to 1 and then to 2:
\* a thread in Reserve(2) starts to fill at i = 1, the capacity it found,
\* with nothing in the bank.
C16_Witness ==
    \E t \in Threads :
        /\ resets = 0 /\ pc[t] = "reserve_fill" /\ _size = 0
        /\ loc[t].i = 1 /\ loc[t].n = 2 /\ _capacity = 2

\* C17: in every interleaving, a step that changes _size, _capacity or the
\* buffer is taken by the thread that owns _mutex, inside a critical
\* section; Borrow changes _size only when it finds _size # 0 under the
\* lock, and Reserve changes the buffer and _capacity only when it finds
\* _capacity < n under the lock, whatever they read before locking.
C17_LockingDiscipline ==
    [][/\ <<_size, _capacity, _pool>>' # <<_size, _capacity, _pool>>
          => \E t \in Threads :
                /\ _mutex = t
                /\ StepFrom(t, {"borrow_cs", "return_cs", "reserve_cs",
                                "reserve_fill", "reset_cs"})
       /\ \A t \in Threads :
            /\ (StepFrom(t, {"borrow_cs"}) /\ _size' # _size) => _size # 0
            /\ (StepFrom(t, {"reserve_cs"}) /\ <<_capacity, _pool>>' # <<_capacity, _pool>>)
               => _capacity < loc[t].n]_vars

\* A thread that read _size # 0 without the lock owns the lock and finds
\* the bank empty: another thread took the data in between.
C17_Witness ==
    \E t \in Threads : pc[t] = "borrow_cs" /\ _mutex = t /\ _size = 0

\* C18: a single caller's Borrow on a pool with _size > 0 returns the data
\* in the top cell, slots[_size - 1], which was banked, makes no CreateData
\* call, lowers _size by one and leaves ncreated, _capacity, the buffer and
\* the other banked data as they were; a Borrow that calls CreateData found
\* _size = 0.
C18_BorrowMoves ==
    /\ (solo /\ obs.op = "Borrow" /\ obs.pre.size > 0)
       => /\ fatal = "no"
          /\ calls.invoked = obs.pre.invoked
          /\ Len(made) = obs.pre.nmade
          /\ stat.ncreated = obs.pre.ncreated
          /\ _capacity = obs.pre.capacity
          /\ _pool = obs.pre.pool
          /\ obs.phase = "returned"
             => /\ obs.popped
                /\ obs.ret # NULL
                /\ obs.pre.banked[obs.ret] > 0
                /\ Written(obs.pre.pool, obs.pre.size - 1)
                   => obs.ret = obs.pre.pool.mem[obs.pre.size]
                /\ stat.nfree = obs.pre.size - 1
                /\ banked = BankDel(obs.pre.banked, obs.ret)
    /\ (Done("Borrow") /\ calls.invoked # obs.pre.invoked) => obs.pre.size = 0

\* How many threads carry data h inside a call: created and not yet
\* returned by Borrow, or given to Return and not yet banked or destroyed.
Carried(h) ==
    Cardinality({t \in Threads :
                    /\ pc[t] \in {"borrow_count", "return_cs", "return_destroy"}
                    /\ loc[t].data = h})

\* The cells holding data h in a buffer Reset has detached and whose
\* DestroyData call is still to come.
Detached(h) ==
    {<<t, k>> \in Threads \X (0..(MaxHandles + 1)) :
        /\ pc[t] = "reset_destroy"
        /\ loc[t].i <= k /\ k < loc[t].saved_size
        /\ Written(loc[t].saved_pool, k)
        /\ loc[t].saved_pool.mem[k + 1] = h}

\* C19: in every interleaving on a pool whose factory has never been NULL,
\* each data CreateData has returned is at every moment exactly one of:
\* with a caller (held, or being handed over inside Borrow or Return), in
\* the bank (or in the buffer Reset detached, before its DestroyData), or
\* destroyed once.
C19_Conservation ==
    ~calls.nullfac
    => \A h \in 1..Len(made) :
          HeldCount(h) + Carried(h) + Cardinality(BankCells(h))
            + Cardinality(Detached(h)) + destroyed[h].n = 1

\* C20: a thread that has returned from its call does not own _mutex, and
\* under fair scheduling every call a thread has begun returns.
C20_ReleasesAndCompletes ==
    /\ [](\A t \in Threads : pc[t] = "idle" => _mutex # t)
    /\ \A t \in Threads : (pc[t] # "idle") ~> (pc[t] = "idle")
====
